---- MODULE Spec2Model ----
(***************************************************************************)
(* State-machine model of the HR retrieval-augmented chat backend:         *)
(*   src/rag_backend.py     embed_query, get_hr_policy,                     *)
(*                          build_sources_markdown                          *)
(*   src/ingest_hr_docs.py  extract_text, chunk_text, embed,                *)
(*                          ingest_directory                                *)
(*   src/app.py             chat, metrics, METRICS, _metrics_lock           *)
(*                                                                         *)
(* Python values are represented as follows.                               *)
(*   str          a TLA+ string, or a sequence of characters where the     *)
(*                code slices or strips it                                 *)
(*   None         the string None                                          *)
(*   float        an embedding entry is the fraction [num, den]; the       *)
(*                stride arithmetic n / TARGET_DIM and i * stride is done  *)
(*                in IEEE-754 binary64 (53-bit significand, round to       *)
(*                nearest, ties to even) on a bit sequence                 *)
(*   list         a sequence; Python index k is TLA+ index k + 1           *)
(***************************************************************************)
EXTENDS Integers, Sequences, FiniteSets, TLC

VARIABLES
    \* process configuration, read once at import time
    TARGET_DIM,      \* rag_backend.py:22, ingest_hr_docs.py:28
    openai_client,   \* rag_backend.py:19, app.py:38 (TRUE iff OPENAI_API_KEY is set)
    \* dimension normalisation of one provider vector on both paths
    dim_vec,         \* the vector the embedding provider returned
    dim_upserted,    \* vectors ingestion put into an upsert (ingest_hr_docs.py:90,119)
    dim_queried,     \* vectors retrieval sent to index.query (rag_backend.py:57-60)
    \* one activation of chunk_text (ingest_hr_docs.py:40-50)
    text,            \* parameter text, a sequence of characters
    max_chars,       \* parameter max_chars
    overlap,         \* parameter overlap
    start,           \* local start
    chunks,          \* local chunks
    chunk_spans,     \* history: <<start, end>> of every chunks.append(text[start:end])
    chunk_pc,        \* "idle", "while" (at the loop test) or "return"
    \* one call of build_sources_markdown (rag_backend.py:80-92)
    src_docs,        \* parameter docs
    src_result,      \* the returned string, None before the call returns
    \* one run of ingest_hr_docs.py (ingest_hr_docs.py:72-129)
    dry_run,             \* "--dry-run" in sys.argv
    GITHUB_DOC_BASE_URL, \* ingest_hr_docs.py:20, a sequence of string pieces
    provider_dim,        \* length of the vectors the embedding model returns
    files,               \* files = list(base.glob("*")), the directory entries
    ing_pc,              \* position in ingest_directory
    fp,                  \* Python index into files of the loop variable fp
    chunk_i,             \* loop variable i of enumerate(chunks)
    vectors,             \* local vectors
    upsert_calls,        \* history: the vectors argument of every index.upsert call
    embed_calls,         \* history: <<fp.name, i>> of every embed(chunk) call
    stdout,              \* history: what print wrote
    ing_error,           \* the exception that ended the run, None if none
    \* the API process (app.py): shared state, then per-request locals, each a
    \* function of the request
    METRICS,         \* app.py:54-63, without start_time
    metrics_lock,    \* app.py:53 _metrics_lock: LOCK_FREE or the holder
    metrics_reads,   \* history: what each GET /metrics returned
    pc,              \* position of each POST /chat request in chat()
    req,             \* req.message, a sequence of characters
    message,         \* local message
    query_vec,       \* embed_query's vec, then get_hr_policy's vec
    docs,            \* local docs
    sources_md,      \* local sources_md
    usage,           \* usage of the provider result in hand
    answer,          \* local answer
    reply,           \* ChatResponse.reply, None before the return
    exc,             \* the exception that left chat(), None if none
    calls            \* history: the outbound calls of the request, in order

cfgVars == <<TARGET_DIM, openai_client>>
dimVars == <<dim_vec, dim_upserted, dim_queried>>
chunkVars == <<text, max_chars, overlap, start, chunks, chunk_spans, chunk_pc>>
srcVars == <<src_docs, src_result>>
ingVars == <<dry_run, GITHUB_DOC_BASE_URL, provider_dim, files, ing_pc, fp, chunk_i,
             vectors, upsert_calls, embed_calls, stdout, ing_error>>
chatVars == <<METRICS, metrics_lock, metrics_reads, pc, req, message, query_vec, docs,
              sources_md, usage, answer, reply, exc, calls>>
vars == <<cfgVars, dimVars, chunkVars, srcVars, ingVars, chatVars>>

\* everything but one component's variables
exceptDim == <<cfgVars, chunkVars, srcVars, ingVars, chatVars>>
exceptChunk == <<cfgVars, dimVars, srcVars, ingVars, chatVars>>
exceptSrc == <<cfgVars, dimVars, chunkVars, ingVars, chatVars>>
exceptIng == <<cfgVars, dimVars, srcVars, chatVars>>
exceptChat == <<cfgVars, dimVars, chunkVars, srcVars, ingVars>>

None == "None"

Max(a, b) == IF a >= b THEN a ELSE b
Min(a, b) == IF a <= b THEN a ELSE b

RECURSIVE SumNum(_)
\* sum(...) over a list of floats held as fractions with denominator 1
SumNum(s) == IF s = <<>> THEN 0 ELSE Head(s).num + SumNum(Tail(s))

(***************************************************************************)
(* IEEE-754 binary64 arithmetic on small operands.  A positive double is    *)
(* [bits, exp]: bits is the 53-bit significand, most significant bit first  *)
(* (bits[1] = 1), and the value is the integer written by bits times        *)
(* 2^exp.                                                                   *)
(***************************************************************************)
DOUBLE_PRECISION == 53

RECURSIVE IntBits(_)
\* binary digits of a natural number, most significant first, no leading zero
IntBits(nat) == IF nat = 0 THEN <<>> ELSE IntBits(nat \div 2) \o <<nat % 2>>

RECURSIVE BitsInt(_)
\* the natural number written by a bit sequence
BitsInt(digits) ==
    IF digits = <<>> THEN 0
    ELSE 2 * BitsInt(SubSeq(digits, 1, Len(digits) - 1)) + digits[Len(digits)]

\* width of the limbs a significand is cut into, so that every intermediate
\* product stays a small integer
LIMB == 18

\* the low `width` binary digits of a natural number, most significant first
FixBits(nat, width) == [fj \in 1..width |-> (nat \div 2^(width - fj)) % 2]

RECURSIVE FracBits(_, _, _)
\* the next k binary digits of r / d (0 <= r < d) after the binary point
FracBits(fr, fd, fk) ==
    IF fk = 0 THEN <<>>
    ELSE FixBits((fr * 2^Min(fk, LIMB)) \div fd, Min(fk, LIMB))
             \o FracBits((fr * 2^Min(fk, LIMB)) % fd, fd, fk - Min(fk, LIMB))

RECURSIVE RemAfter(_, _, _)
\* the remainder left after those k digits
RemAfter(rr, rd, rk) ==
    IF rk = 0 THEN rr ELSE RemAfter((rr * 2^Min(rk, LIMB)) % rd, rd, rk - Min(rk, LIMB))

RECURSIVE LeadZeros(_, _)
\* number of zero digits of r / d (0 < r < d) before its first one digit
LeadZeros(zr, zd) == IF 2 * zr >= zd THEN 0 ELSE 1 + LeadZeros(2 * zr, zd)

\* bits + 1 on a fixed-width bit sequence (wraps to all zeros on overflow)
IncBits(ib) ==
    LET zeros == {zj \in 1..Len(ib) : ib[zj] = 0}
        last  == IF zeros = {} THEN 0 ELSE CHOOSE zj \in zeros : \A zk \in zeros : zk <= zj
    IN [ij \in 1..Len(ib) |-> IF ij < last THEN ib[ij] ELSE IF ij = last THEN 1 ELSE 0]

\* round a significand up by one unit in the last place, renormalising
RoundUp(dbl) ==
    LET inc == IncBits(dbl.bits) IN
    IF inc[1] = 1 THEN [bits |-> inc, exp |-> dbl.exp]
    ELSE [bits |-> <<1>> \o SubSeq(inc, 1, Len(inc) - 1), exp |-> dbl.exp + 1]

\* Python int / int (true division), correctly rounded; n >= 1, d >= 1
TrueDiv(num, den) ==
    LET whole == IntBits(num \div den)
        k  == Len(whole)
        r0 == num % den
        z  == IF k = 0 THEN LeadZeros(r0, den) ELSE 0
        r1 == RemAfter(r0, den, z)
        f  == DOUBLE_PRECISION - k
        q  == [bits |-> whole \o FracBits(r1, den, f), exp |-> 0 - (z + f)]
        rem == RemAfter(r1, den, f)
        up == 2 * rem > den \/ (2 * rem = den /\ q.bits[DOUBLE_PRECISION] = 1)
    IN IF up THEN RoundUp(q) ELSE q

\* exact product of a 53-bit sequence by a small natural m, limb by limb
MulBits(mb, m) ==
    LET lo  == BitsInt(SubSeq(mb, Len(mb) - LIMB + 1, Len(mb)))
        mid == BitsInt(SubSeq(mb, Len(mb) - 2 * LIMB + 1, Len(mb) - LIMB))
        hi  == BitsInt(SubSeq(mb, 1, Len(mb) - 2 * LIMB))
        pl  == lo * m
        pm  == mid * m + pl \div 2^LIMB
        ph  == hi * m + pm \div 2^LIMB
    IN IntBits(ph) \o FixBits(pm % 2^LIMB, LIMB) \o FixBits(pl % 2^LIMB, LIMB)

\* Python int * float for an int i >= 1: the exact product rounded to nearest even
MulInt(factor, y) ==
    LET p    == MulBits(y.bits, factor)
        extra == Len(p) - DOUBLE_PRECISION
        kept == [bits |-> SubSeq(p, 1, DOUBLE_PRECISION), exp |-> y.exp + extra]
        drop == SubSeq(p, DOUBLE_PRECISION + 1, Len(p))
        half == extra > 0 /\ drop[1] = 1
        sticky == \E j \in 2..extra : drop[j] = 1
        up   == half /\ (sticky \/ kept.bits[DOUBLE_PRECISION] = 1)
    IN IF up THEN RoundUp(kept) ELSE kept

\* Python int(float): truncation toward zero (the values here are below 2^53)
IntOf(fl) == BitsInt(SubSeq(fl.bits, 1, DOUBLE_PRECISION + fl.exp))

\* int(i * stride) of the stride-sampling branch, stride = n / TARGET_DIM
StrideIndex(idx, len, dim) ==
    IF idx = 0 THEN 0 ELSE IntOf(MulInt(idx, TrueDiv(len, dim)))

(***************************************************************************)
(* Dimension normalisation: the tail of embed_query and of embed.           *)
(***************************************************************************)
\* rag_backend.py:45-52
embed_query_unnormalized(vec, target) == vec
embed_query_normalize(vec, target) ==
    LET n == Len(vec) IN
    IF n = target THEN vec
    ELSE IF n % target = 0 THEN
        LET step == n \div target IN
        [i \in 1..target |->
            [num |-> SumNum(SubSeq(vec, (i - 1) * step + 1, i * step)), den |-> step]]
    ELSE [i \in 1..target |-> vec[StrideIndex(i - 1, n, target) + 1]]

\* ingest_hr_docs.py:59-69
embed_normalize(vec, target) ==
    LET n == Len(vec) IN
    IF n = target THEN vec
    ELSE IF n % target = 0 THEN
        LET step == n \div target IN
        [i \in 1..target |->
            [num |-> SumNum(SubSeq(vec, (i - 1) * step + 1, i * step)), den |-> step]]
    ELSE [i \in 1..target |-> vec[StrideIndex(i - 1, n, target) + 1]]

\* a provider embedding of length n whose entry at Python index k is float(k)
ProviderVec(plen) == [pj \in 1..plen |-> [num |-> pj - 1, den |-> 1]]

MaxVecLen == 30
MaxDim == 22

DimIdle == dim_vec = <<>> /\ dim_upserted = <<>> /\ dim_queried = <<>>

ChunkIdle ==
    /\ text = <<>> /\ max_chars = 0 /\ overlap = 0 /\ start = 0
    /\ chunks = <<>> /\ chunk_spans = <<>> /\ chunk_pc = "idle"

SrcIdle == src_docs = <<>> /\ src_result = None

IngIdle ==
    /\ dry_run = FALSE /\ GITHUB_DOC_BASE_URL = <<>> /\ provider_dim = 0
    /\ files = <<>> /\ ing_pc = "idle" /\ fp = 0 /\ chunk_i = 0 /\ vectors = <<>>
    /\ upsert_calls = <<>> /\ embed_calls = <<>> /\ stdout = <<>> /\ ing_error = None

ZeroMetrics ==
    [requests |-> 0, errors |-> 0, gemini_calls |-> 0, openai_calls |-> 0,
     prompt_tokens |-> 0, completion_tokens |-> 0, total_tokens |-> 0]

LOCK_FREE == "free"

\* no request has arrived
ChatIdle ==
    /\ METRICS = ZeroMetrics /\ metrics_lock = LOCK_FREE /\ metrics_reads = <<>>
    /\ pc = <<>> /\ req = <<>> /\ message = <<>> /\ query_vec = <<>> /\ docs = <<>>
    /\ sources_md = <<>> /\ usage = <<>> /\ answer = <<>> /\ reply = <<>>
    /\ exc = <<>> /\ calls = <<>>

DimInit ==
    /\ ChatIdle
    /\ ChunkIdle
    /\ SrcIdle
    /\ IngIdle
    /\ TARGET_DIM \in 1..MaxDim
    /\ openai_client \in BOOLEAN
    /\ dim_vec \in {ProviderVec(n) : n \in 1..MaxVecLen}
    /\ dim_upserted = <<>>
    /\ dim_queried = <<>>

\* ingestion: vec = embed(chunk) becomes the record's "values" that is upserted
DimEmbed ==
    /\ dim_upserted = <<>>
    /\ dim_upserted' = <<embed_normalize(dim_vec, TARGET_DIM)>>
    /\ UNCHANGED <<exceptDim, dim_vec, dim_queried>>

\* retrieval: vec = embed_query(query) is passed to index.query(vector=vec)
DimEmbedQuery ==
    /\ dim_queried = <<>>
    /\ dim_queried' = <<embed_query_normalize(dim_vec, TARGET_DIM)>>
    /\ UNCHANGED <<exceptDim, dim_vec, dim_upserted>>

DimNext == DimEmbed \/ DimEmbedQuery

SpecDim == DimInit /\ [][DimNext]_vars

(***************************************************************************)
(* chunk_text (ingest_hr_docs.py:40-50)                                     *)
(***************************************************************************)
\* Python seq[a:b] for integers a, b: negative bounds count from the end and
\* both bounds are clamped to 0..len(seq)
SliceBound(k, len) == IF k < 0 THEN Max(k + len, 0) ELSE Min(k, len)
Slice(seq, a, b) == SubSeq(seq, SliceBound(a, Len(seq)) + 1, SliceBound(b, Len(seq)))

\* ingest_hr_docs.py:45  end = min(start + max_chars, n)
ChunkEnd(from, size, n) == Min(from + size, n)

\* ingest_hr_docs.py:49  start = max(end - overlap, start + 1)
NextStart_noprogress(end, lap, from) == Max(end - lap, from)
NextStart(end, lap, from) == Max(end - lap, from + 1)

\* ingest_hr_docs.py:41-43  chunks = []; start = 0; n = len(text)
chunk_text_enter(t, size, lap) ==
    /\ text' = t
    /\ max_chars' = size
    /\ overlap' = lap
    /\ start' = 0
    /\ chunks' = <<>>
    /\ chunk_spans' = <<>>
    /\ chunk_pc' = "while"

\* ingest_hr_docs.py:44-49  one iteration of the while loop
ChunkIter ==
    /\ chunk_pc = "while"
    /\ start < Len(text)
    /\ LET end == ChunkEnd(start, max_chars, Len(text)) IN
        /\ chunks' = Append(chunks, Slice(text, start, end))
        /\ chunk_spans' = Append(chunk_spans, <<start, end>>)
        /\ IF end = Len(text)
           THEN chunk_pc' = "return" /\ start' = start
           ELSE chunk_pc' = "while" /\ start' = NextStart(end, overlap, start)
    /\ UNCHANGED <<exceptChunk, text, max_chars, overlap>>

\* ingest_hr_docs.py:44,50  the loop test fails: return chunks
ChunkExit ==
    /\ chunk_pc = "while"
    /\ ~(start < Len(text))
    /\ chunk_pc' = "return"
    /\ UNCHANGED <<exceptChunk, text, max_chars, overlap, start, chunks, chunk_spans>>

MaxTextLen == 5
MaxChars == 3
MaxOverlap == 4
Alphabet == {"a", "b"}
Texts == UNION {[1..k -> Alphabet] : k \in 0..MaxTextLen}

\* the state on entry to chunk_text(text, max_chars, overlap)
ChunkInit ==
    /\ ChatIdle
    /\ DimIdle
    /\ SrcIdle
    /\ IngIdle
    /\ TARGET_DIM = 1
    /\ openai_client = FALSE
    /\ text \in Texts
    /\ max_chars \in 1..MaxChars
    /\ overlap \in 0..MaxOverlap
    /\ start = 0
    /\ chunks = <<>>
    /\ chunk_spans = <<>>
    /\ chunk_pc = "while"

ChunkNext == ChunkIter \/ ChunkExit

SpecChunk == ChunkInit /\ [][ChunkNext]_vars

\* the interpreter keeps executing the loop: weak fairness of its steps
FairSpecChunk == SpecChunk /\ WF_vars(ChunkNext)

RECURSIVE C6_Rebuild(_)
\* chunks 1..j laid end to end, each without the characters it shares with
\* the chunk before it
C6_Rebuild(j) ==
    IF j = 0 THEN <<>>
    ELSE IF j = 1 THEN chunks[1]
    ELSE C6_Rebuild(j - 1)
         \o SubSeq(chunks[j], chunk_spans[j - 1][2] - chunk_spans[j][1] + 1, Len(chunks[j]))

C6_Progress ==
    /\ Len(chunk_spans) = Len(chunks)
    /\ \A j \in 1..Len(chunks) :
          /\ 0 <= chunk_spans[j][1]
          /\ chunk_spans[j][1] < chunk_spans[j][2]
          /\ chunk_spans[j][2] <= Len(text)
    /\ \A j \in 1..(Len(chunks) - 1) : chunk_spans[j + 1][1] > chunk_spans[j][1]
    /\ (chunk_pc = "while" /\ chunks # <<>>) => start > chunk_spans[Len(chunks)][1]

C6_Shape ==
    /\ \A j \in 1..Len(chunks) :
          /\ chunks[j] = SubSeq(text, chunk_spans[j][1] + 1, chunk_spans[j][2])
          /\ Len(chunks[j]) <= max_chars
    /\ \A j \in 1..(Len(chunks) - 1) : chunk_spans[j + 1][1] <= chunk_spans[j][2]
    /\ chunks # <<>> => chunk_spans[1][1] = 0
    /\ chunk_pc = "return" =>
          /\ chunks # <<>> => chunk_spans[Len(chunks)][2] = Len(text)
          /\ C6_Rebuild(Len(chunks)) = text
          /\ text = <<>> => chunks = <<>>
          /\ (text # <<>> /\ Len(text) <= max_chars) => chunks = <<text>>

C6_Safety == C6_Progress /\ (overlap < max_chars => C6_Shape)

\* C6: for max_chars >= 1 and any overlap >= 0, chunk_text returns and every
\* chunk starts strictly after the one before it; when also overlap < max_chars,
\* every chunk is the text slice of its span and is at most max_chars long,
\* consecutive chunks leave no gap, the first starts at 0, the last ends at
\* len(text), the chunks without their overlaps rebuild the text, an empty
\* text gives no chunk and a text of at most max_chars gives one chunk, itself.
C6_ChunkTextCoversText == [](C6_Safety) /\ <>(chunk_pc = "return")

\* a text cut into at least three overlapping chunks
C6_Witness ==
    /\ chunk_pc = "return"
    /\ Len(chunks) >= 3
    /\ 0 < overlap /\ overlap < max_chars
    /\ chunk_spans[2][1] < chunk_spans[1][2]

(***************************************************************************)
(* build_sources_markdown (rag_backend.py:80-92)                            *)
(***************************************************************************)
RECURSIVE Join(_, _)
\* sep.join(strs)
Join(strs, sep) ==
    IF strs = <<>> THEN ""
    ELSE IF Len(strs) = 1 THEN strs[1]
    ELSE strs[1] \o sep \o Join(Tail(strs), sep)

\* Python truthiness of an optional string: None and "" are falsy
Truthy(str) == str # None /\ str # ""

\* rag_backend.py:86  file = d["file"] or "Document"
SourceName_raw(d) == d.file
SourceName(d) == IF Truthy(d.file) THEN d.file ELSE "Document"

\* rag_backend.py:90  url = d.get("url") or file
SourceUrl(d) == IF Truthy(d.url) THEN d.url ELSE SourceName(d)

\* rag_backend.py:91  f"- ^1 [{file}]({url})"
SourceBullet(d) == "- ^1 [" \o SourceName(d) \o "](" \o SourceUrl(d) \o ")"

RECURSIVE SourceLines(_, _, _)
\* rag_backend.py:85-91  the for loop, from the lines and seen built so far
SourceLines(ds, lines, seen) ==
    IF ds = <<>> THEN lines
    ELSE IF SourceName(Head(ds)) \in seen THEN SourceLines(Tail(ds), lines, seen)
    ELSE SourceLines(Tail(ds), Append(lines, SourceBullet(Head(ds))),
                     seen \cup {SourceName(Head(ds))})

\* rag_backend.py:82-84,92
build_sources_markdown(ds) == Join(SourceLines(ds, <<"Sources:">>, {}), "\n")

\* documents as get_hr_policy shapes them (rag_backend.py:69-76): file is the
\* metadata source_file or "", url is the metadata url or None
MaxDocs == 3
DocFiles == {"", "A.pdf", "B.txt", "Document"}
DocUrls == {None, "", "http://docs/A.pdf"}
DocScores == {1, 2}
Docs == [score : DocScores, text : {"t"}, file : DocFiles, url : DocUrls]
DocLists == UNION {[1..k -> Docs] : k \in 0..MaxDocs}

SrcInit ==
    /\ ChatIdle
    /\ DimIdle
    /\ ChunkIdle
    /\ IngIdle
    /\ TARGET_DIM = 1
    /\ openai_client = FALSE
    /\ src_docs \in DocLists
    /\ src_result = None

BuildSources ==
    /\ src_result = None
    /\ src_result' = build_sources_markdown(src_docs)
    /\ UNCHANGED <<exceptSrc, src_docs>>

SrcNext == BuildSources

SpecSources == SrcInit /\ [][SrcNext]_vars

\* the name a document is listed under: its file, or Document for an empty file
C7_Shown(d) == IF d.file = "" THEN "Document" ELSE d.file
\* the link target: the url, or the listed name when the url is absent or empty
C7_Target(d) == IF d.url = None \/ d.url = "" THEN C7_Shown(d) ELSE d.url

RECURSIVE C7_Bullets(_, _)
\* one bullet for every document no earlier document shares its listed name with
C7_Bullets(ds, j) ==
    IF j > Len(ds) THEN <<>>
    ELSE (IF \A k \in 1..(j - 1) : C7_Shown(ds[k]) # C7_Shown(ds[j])
          THEN <<"- ^1 [" \o C7_Shown(ds[j]) \o "](" \o C7_Target(ds[j]) \o ")">>
          ELSE <<>>)
         \o C7_Bullets(ds, j + 1)

\* C7 (amended): build_sources_markdown returns the line Sources: followed by
\* one bullet per distinct listed name, in first-occurrence order, where a
\* document is listed under its file name, or under Document when its file
\* name is empty; the link target is the first occurrence's url, or the listed
\* name when that url is absent or empty.
C7_OneBulletPerListedName ==
    src_result # None =>
        src_result = Join(<<"Sources:">> \o C7_Bullets(src_docs, 1), "\n")

\* files [A, A, B], the second A with another url: two bullets, A then B
C7_Witness ==
    /\ Len(src_docs) = 3
    /\ src_docs[1].file = "A.pdf" /\ src_docs[1].url = "http://docs/A.pdf"
    /\ src_docs[2].file = "A.pdf" /\ src_docs[2].url = None
    /\ src_docs[2].score # src_docs[1].score
    /\ src_docs[3].file = "B.txt" /\ src_docs[3].url = None
    /\ src_result = "Sources:\n- ^1 [A.pdf](http://docs/A.pdf)\n- ^1 [B.txt](B.txt)"

RECURSIVE C7_FileBullets(_, _)
\* one bullet for every document no earlier document shares its file with
C7_FileBullets(ds, j) ==
    IF j > Len(ds) THEN <<>>
    ELSE (IF \A k \in 1..(j - 1) : ds[k].file # ds[j].file
          THEN <<"- ^1 [" \o ds[j].file \o "]("
                  \o (IF ds[j].url = None THEN ds[j].file ELSE ds[j].url) \o ")">>
          ELSE <<>>)
         \o C7_FileBullets(ds, j + 1)

\* C7 as claimed: one bullet per distinct source file, in first-occurrence
\* order, linking to the first occurrence's url or to the file name itself
\* when that url is absent.
C7_OneBulletPerFile ==
    src_result # None =>
        src_result = Join(<<"Sources:">> \o C7_FileBullets(src_docs, 1), "\n")

(***************************************************************************)
(* Ingestion (ingest_hr_docs.py:31-37, 53-69, 72-129)                       *)
(***************************************************************************)
DEFAULT_MAX_CHARS == 1200
DEFAULT_OVERLAP == 200
DRY_RUN_DIM == 768
PINECONE_NAMESPACE == "hr"

Digit(k) ==
    CASE k = 0 -> "0" [] k = 1 -> "1" [] k = 2 -> "2" [] k = 3 -> "3" [] k = 4 -> "4"
      [] k = 5 -> "5" [] k = 6 -> "6" [] k = 7 -> "7" [] k = 8 -> "8" [] k = 9 -> "9"

RECURSIVE ToStr(_)
\* str(k) of a natural number, as an f-string formats it
ToStr(k) == IF k < 10 THEN Digit(k) ELSE ToStr(k \div 10) \o Digit(k % 10)

RECURSIVE Concat(_)
\* "".join(pieces): the string a sequence of pieces spells
Concat(pieces) == IF pieces = <<>> THEN "" ELSE Head(pieces) \o Concat(Tail(pieces))

RECURSIVE RStrip(_, _)
\* str.rstrip(chars) on a sequence of pieces
RStrip(pieces, chars) ==
    IF pieces # <<>> /\ pieces[Len(pieces)] \in chars
    THEN RStrip(SubSeq(pieces, 1, Len(pieces) - 1), chars)
    ELSE pieces

RECURSIVE JoinPages(_)
\* ingest_hr_docs.py:34-35  "\n".join(p.extract_text() or "" for p in pages)
JoinPages(pages) ==
    IF pages = <<>> THEN <<>>
    ELSE (IF Head(pages) = None THEN <<>> ELSE Head(pages))
         \o (IF Len(pages) > 1 THEN <<"\n">> ELSE <<>>)
         \o JoinPages(Tail(pages))

\* str.lower() of a file suffix
Lower(suffix) == IF suffix = ".PDF" THEN ".pdf" ELSE suffix

\* ingest_hr_docs.py:31-37  the text of a readable file
extract_text(entry) ==
    IF Lower(entry.suffix) = ".pdf" THEN JoinPages(entry.pages) ELSE entry.content

\* ingest_hr_docs.py:93  rid = f"{fp.name}#{i}-{uuid.uuid4().hex[:8]}"
RecordId(name, i, hex) == name \o "#" \o ToStr(i) \o "-" \o hex

\* ingest_hr_docs.py:95-98  url = None, or base.rstrip("/") + "/" + fp.name
RecordUrl(name) ==
    IF GITHUB_DOC_BASE_URL # <<>>
    THEN Concat(RStrip(GITHUB_DOC_BASE_URL, {"/"})) \o "/" \o name
    ELSE None

\* ingest_hr_docs.py:100-106
RecordMetadata_onebased(name, i, chunk) ==
    [source_file |-> name, chunk_index |-> i + 1, chunk_text |-> chunk]
RecordMetadata(name, i, chunk) ==
    IF Truthy(RecordUrl(name))
    THEN [source_file |-> name, chunk_index |-> i, chunk_text |-> chunk,
          url |-> RecordUrl(name)]
    ELSE [source_file |-> name, chunk_index |-> i, chunk_text |-> chunk]

\* ingest_hr_docs.py:108-114
Record(name, i, hex, vec, chunk) ==
    [id |-> RecordId(name, i, hex), values |-> vec,
     metadata |-> RecordMetadata(name, i, chunk)]

\* ingest_hr_docs.py:53-69  embed(text) when the provider answers with vec
embed(vec) == embed_normalize(vec, TARGET_DIM)

\* ingest_hr_docs.py:92  [0.0] * 768
DummyVector(dlen) == [dj \in 1..dlen |-> [num |-> 0, den |-> 1]]

\* the file the loop variable fp names
Entry == files[fp + 1]

\* ingest_hr_docs.py:78  for fp in files: take the next entry
NextFile ==
    /\ fp' = fp + 1
    /\ ing_pc' = "for_fp"

\* an exception leaves ingest_directory and ends the process
Abort(error) ==
    /\ ing_error' = error
    /\ ing_pc' = "aborted"

\* ingest_hr_docs.py:127-128, 73-76  the banner and the Found line
IngestStart ==
    /\ ing_pc = "main"
    /\ stdout' = (IF dry_run THEN <<<<"=== DRY RUN MODE ===">>>> ELSE <<>>)
                  \o <<<<"Found", Len(files)>>>>
    /\ fp' = 0
    /\ ing_pc' = "for_fp"
    /\ UNCHANGED <<exceptIng, chunkVars, dry_run, GITHUB_DOC_BASE_URL, provider_dim, files,
                   chunk_i, vectors, upsert_calls, embed_calls, ing_error>>

\* ingest_hr_docs.py:79-80  if not fp.is_file(): continue
IngestSkip ==
    /\ ing_pc = "for_fp"
    /\ fp < Len(files)
    /\ ~Entry.is_file
    /\ NextFile
    /\ UNCHANGED <<exceptIng, chunkVars, dry_run, GITHUB_DOC_BASE_URL, provider_dim, files,
                   chunk_i, vectors, upsert_calls, embed_calls, stdout, ing_error>>

\* ingest_hr_docs.py:82  text = extract_text(fp) raises: the file cannot be read
IngestExtractFails ==
    /\ ing_pc = "for_fp"
    /\ fp < Len(files)
    /\ Entry.is_file
    /\ ~Entry.readable
    /\ Abort("ExtractionError")
    /\ UNCHANGED <<exceptIng, chunkVars, dry_run, GITHUB_DOC_BASE_URL, provider_dim, files,
                   fp, chunk_i, vectors, upsert_calls, embed_calls, stdout>>

\* ingest_hr_docs.py:82-83  text = extract_text(fp); chunk_text(text) is entered
IngestExtract ==
    /\ ing_pc = "for_fp"
    /\ fp < Len(files)
    /\ Entry.is_file
    /\ Entry.readable
    /\ chunk_text_enter(extract_text(Entry), DEFAULT_MAX_CHARS, DEFAULT_OVERLAP)
    /\ ing_pc' = "chunk_text"
    /\ UNCHANGED <<exceptIng, dry_run, GITHUB_DOC_BASE_URL, provider_dim, files, fp,
                   chunk_i, vectors, upsert_calls, embed_calls, stdout, ing_error>>

\* ingest_hr_docs.py:83-87  chunks = chunk_text(text) returned
IngestChunked ==
    /\ ing_pc = "chunk_text"
    /\ chunk_pc = "return"
    /\ chunk_pc' = "idle"
    /\ IF chunks = <<>>
       THEN NextFile /\ UNCHANGED <<vectors, chunk_i>>
       ELSE vectors' = <<>> /\ chunk_i' = 0 /\ ing_pc' = "for_chunk" /\ fp' = fp
    /\ UNCHANGED <<exceptIng, text, max_chars, overlap, start, chunks, chunk_spans,
                   dry_run, GITHUB_DOC_BASE_URL, provider_dim, files,
                   upsert_calls, embed_calls, stdout, ing_error>>

UuidHex == {"0a1b2c3d", "ffffffff"}

\* ingest_hr_docs.py:88-114  one loop iteration under --dry-run
IngestChunkDry ==
    /\ ing_pc = "for_chunk"
    /\ chunk_i < Len(chunks)
    /\ dry_run
    /\ \E hex \in UuidHex :
          vectors' = Append(vectors,
              Record(Entry.name, chunk_i, hex, DummyVector(DRY_RUN_DIM), chunks[chunk_i + 1]))
    /\ chunk_i' = chunk_i + 1
    /\ UNCHANGED <<exceptIng, chunkVars, dry_run, GITHUB_DOC_BASE_URL, provider_dim, files,
                   ing_pc, fp, upsert_calls, embed_calls, stdout, ing_error>>

\* ingest_hr_docs.py:88-114  one loop iteration, vec = embed(chunk) returns
IngestChunkEmbed ==
    /\ ing_pc = "for_chunk"
    /\ chunk_i < Len(chunks)
    /\ ~dry_run
    /\ embed_calls' = Append(embed_calls, <<Entry.name, chunk_i>>)
    /\ \E hex \in UuidHex :
          vectors' = Append(vectors,
              Record(Entry.name, chunk_i, hex, embed(ProviderVec(provider_dim)),
                     chunks[chunk_i + 1]))
    /\ chunk_i' = chunk_i + 1
    /\ UNCHANGED <<exceptIng, chunkVars, dry_run, GITHUB_DOC_BASE_URL, provider_dim, files,
                   ing_pc, fp, upsert_calls, stdout, ing_error>>

\* ingest_hr_docs.py:90, 54-57  the embedding provider call raises
IngestChunkEmbedFails ==
    /\ ing_pc = "for_chunk"
    /\ chunk_i < Len(chunks)
    /\ ~dry_run
    /\ embed_calls' = Append(embed_calls, <<Entry.name, chunk_i>>)
    /\ Abort("EmbeddingError")
    /\ UNCHANGED <<exceptIng, chunkVars, dry_run, GITHUB_DOC_BASE_URL, provider_dim, files,
                   fp, chunk_i, vectors, upsert_calls, stdout>>

\* ingest_hr_docs.py:116-117  the would-ingest report
IngestReportDry ==
    /\ ing_pc = "for_chunk"
    /\ chunk_i = Len(chunks)
    /\ dry_run
    /\ stdout' = Append(stdout, <<"[DRY-RUN] Would ingest", Len(vectors), Entry.name>>)
    /\ NextFile
    /\ UNCHANGED <<exceptIng, chunkVars, dry_run, GITHUB_DOC_BASE_URL, provider_dim, files,
                   chunk_i, vectors, upsert_calls, embed_calls, ing_error>>

\* ingest_hr_docs.py:118-123  index.upsert(namespace, vectors) returns
IngestUpsert ==
    /\ ing_pc = "for_chunk"
    /\ chunk_i = Len(chunks)
    /\ ~dry_run
    /\ upsert_calls' = Append(upsert_calls,
                              [namespace |-> PINECONE_NAMESPACE, vectors |-> vectors])
    /\ stdout' = Append(stdout, <<"Ingested", Len(vectors), Entry.name>>)
    /\ NextFile
    /\ UNCHANGED <<exceptIng, chunkVars, dry_run, GITHUB_DOC_BASE_URL, provider_dim, files,
                   chunk_i, vectors, embed_calls, ing_error>>

\* ingest_hr_docs.py:119-122  index.upsert raises
IngestUpsertFails ==
    /\ ing_pc = "for_chunk"
    /\ chunk_i = Len(chunks)
    /\ ~dry_run
    /\ upsert_calls' = Append(upsert_calls,
                              [namespace |-> PINECONE_NAMESPACE, vectors |-> vectors])
    /\ Abort("UpsertError")
    /\ UNCHANGED <<exceptIng, chunkVars, dry_run, GITHUB_DOC_BASE_URL, provider_dim, files,
                   fp, chunk_i, vectors, embed_calls, stdout>>

\* ingest_hr_docs.py:78  the for loop is exhausted: ingest_directory returns
IngestDone ==
    /\ ing_pc = "for_fp"
    /\ fp = Len(files)
    /\ ing_pc' = "done"
    /\ UNCHANGED <<exceptIng, chunkVars, dry_run, GITHUB_DOC_BASE_URL, provider_dim, files,
                   fp, chunk_i, vectors, upsert_calls, embed_calls, stdout, ing_error>>

MaxFiles == 2
LongTextLen == 3000
LongText == [j \in 1..LongTextLen |-> IF j % 7 = 0 THEN "b" ELSE "a"]

\* what a directory entry can be; Named gives it the name of its position
EntryKinds ==
    { [is_file |-> FALSE, readable |-> FALSE, suffix |-> "", content |-> <<>>, pages |-> <<>>],
      [is_file |-> TRUE, readable |-> FALSE, suffix |-> ".txt", content |-> <<>>, pages |-> <<>>],
      [is_file |-> TRUE, readable |-> TRUE, suffix |-> ".txt", content |-> <<>>, pages |-> <<>>],
      [is_file |-> TRUE, readable |-> TRUE, suffix |-> ".txt", content |-> <<"a", "b", "c">>,
       pages |-> <<>>],
      [is_file |-> TRUE, readable |-> TRUE, suffix |-> ".txt", content |-> LongText,
       pages |-> <<>>],
      [is_file |-> TRUE, readable |-> TRUE, suffix |-> ".PDF", content |-> <<>>,
       pages |-> <<None, <<"a", "b">>>>] }

Named(kind, pos) ==
    [name |-> "doc" \o ToStr(pos) \o kind.suffix, is_file |-> kind.is_file,
     readable |-> kind.readable, suffix |-> kind.suffix, content |-> kind.content,
     pages |-> kind.pages]

Listings ==
    UNION {{[pos \in 1..k |-> Named(ks[pos], pos)] : ks \in [1..k -> EntryKinds]} :
           k \in 0..MaxFiles}

IngestDim == 2
BaseUrls == {<<>>, <<"http://docs", "/">>}

IngInit ==
    /\ ChatIdle
    /\ DimIdle
    /\ ChunkIdle
    /\ SrcIdle
    /\ TARGET_DIM = IngestDim
    /\ openai_client = FALSE
    /\ dry_run \in BOOLEAN
    /\ GITHUB_DOC_BASE_URL \in BaseUrls
    /\ provider_dim \in (IF dry_run THEN {TARGET_DIM}
                         ELSE {TARGET_DIM, 2 * TARGET_DIM, TARGET_DIM + 1})
    /\ files \in Listings
    /\ ing_pc = "main"
    /\ fp = 0
    /\ chunk_i = 0
    /\ vectors = <<>>
    /\ upsert_calls = <<>>
    /\ embed_calls = <<>>
    /\ stdout = <<>>
    /\ ing_error = None

IngNext ==
    \/ IngestStart
    \/ IngestSkip
    \/ IngestExtractFails
    \/ IngestExtract
    \/ ChunkIter
    \/ ChunkExit
    \/ IngestChunked
    \/ IngestChunkDry
    \/ IngestChunkEmbed
    \/ IngestChunkEmbedFails
    \/ IngestReportDry
    \/ IngestUpsert
    \/ IngestUpsertFails
    \/ IngestDone

SpecIngest == IngInit /\ [][IngNext]_vars

(***************************************************************************)
(* C8: the normalisation rule as stated, with exact integer arithmetic      *)
(***************************************************************************)
C8_Rule(vec, d) ==
    IF Len(vec) = d THEN vec
    ELSE IF Len(vec) % d = 0
    THEN [i \in 1..d |->
            [num |-> SumNum(SubSeq(vec, (i - 1) * (Len(vec) \div d) + 1,
                                        i * (Len(vec) \div d))),
             den |-> Len(vec) \div d]]
    ELSE [i \in 1..d |-> vec[((i - 1) * Len(vec)) \div d + 1]]

C8_Sent == {dim_upserted[j] : j \in 1..Len(dim_upserted)}
               \cup {dim_queried[j] : j \in 1..Len(dim_queried)}

\* C8 as claimed: every vector upserted by ingestion or queried by retrieval
\* has exactly TARGET_DIM entries and is the provider vector itself, the
\* per-block mean, or the entries at input index floor(i*n/TARGET_DIM).
C8_NormalizedByRule ==
    \A out \in C8_Sent : Len(out) = TARGET_DIM /\ out = C8_Rule(dim_vec, TARGET_DIM)

\* the parts of C8 the code does satisfy: the length is TARGET_DIM, the
\* sampled index is within [0, n), and both operations give the same vector
C8_LengthAndAgreement ==
    /\ \A out \in C8_Sent : Len(out) = TARGET_DIM
    /\ \A i \in 0..(TARGET_DIM - 1) :
           StrideIndex(i, Len(dim_vec), TARGET_DIM) \in 0..(Len(dim_vec) - 1)
    /\ dim_upserted # <<>> /\ dim_queried # <<>> => dim_upserted = dim_queried

(***************************************************************************)
(* C9: what a whole ingestion run calls and reports                         *)
(***************************************************************************)
RECURSIVE C9_ChunkCount(_, _)
\* how many chunks chunk_text makes of a text of n characters, from `from`
C9_ChunkCount(n, from) ==
    IF from >= n THEN 0
    ELSE IF ChunkEnd(from, DEFAULT_MAX_CHARS, n) = n THEN 1
    ELSE 1 + C9_ChunkCount(n, Max(ChunkEnd(from, DEFAULT_MAX_CHARS, n) - DEFAULT_OVERLAP,
                                  from + 1))

\* number of chunks a directory entry yields; 0 for what is not a regular file
C9_Yield(entry) ==
    IF entry.is_file /\ entry.readable
    THEN C9_ChunkCount(Len(extract_text(entry)), 0) ELSE 0

C9_IsEligible(entry) == C9_Yield(entry) > 0
C9_Eligible == SelectSeq(files, C9_IsEligible)

RECURSIVE C9_EmbedsOf(_)
\* the embed(chunk) calls the entries need: every chunk of every entry, in order
C9_EmbedsOf(entries) ==
    IF entries = <<>> THEN <<>>
    ELSE [i \in 1..C9_Yield(Head(entries)) |-> <<Head(entries).name, i - 1>>]
             \o C9_EmbedsOf(Tail(entries))

C9_IsReport(line) == line[1] = "[DRY-RUN] Would ingest"
C9_Reports == SelectSeq(stdout, C9_IsReport)

\* the upsert call carries one record per chunk of the entry, indexed 0..k-1
C9_CallFor(call, entry) ==
    /\ Len(call.vectors) = C9_Yield(entry)
    /\ \A j \in 1..Len(call.vectors) :
          /\ call.vectors[j].metadata.chunk_index = j - 1
          /\ call.vectors[j].metadata.source_file = entry.name

\* the calls and reports of a run, one per eligible file and none besides
C9_Exact ==
    IF dry_run
    THEN /\ embed_calls = <<>>
         /\ upsert_calls = <<>>
         /\ C9_Reports = [j \in 1..Len(C9_Eligible) |->
               <<"[DRY-RUN] Would ingest", C9_Yield(C9_Eligible[j]), C9_Eligible[j].name>>]
    ELSE /\ Len(upsert_calls) = Len(C9_Eligible)
         /\ \A j \in 1..Len(upsert_calls) : C9_CallFor(upsert_calls[j], C9_Eligible[j])
         /\ embed_calls = C9_EmbedsOf(C9_Eligible)

\* C9 as claimed: over every whole run, ended by return or by an exception
C9_EveryRunExact == ing_pc \in {"done", "aborted"} => C9_Exact

\* C9 (amended): a run that returns has made exactly the calls and reports
\* above; at every moment of every run dry-run mode has made no embedding
\* and no upsert call, and the upsert calls made so far are those of the
\* first eligible files, one each, in order.
C9_CompletedRunExact ==
    /\ ing_pc = "done" => C9_Exact
    /\ dry_run => embed_calls = <<>> /\ upsert_calls = <<>>
    /\ Len(upsert_calls) <= Len(C9_Eligible)
    /\ \A j \in 1..Len(upsert_calls) : C9_CallFor(upsert_calls[j], C9_Eligible[j])
    /\ embed_calls = SubSeq(C9_EmbedsOf(C9_Eligible), 1, Len(embed_calls))

C9_Witness ==
    /\ ing_pc = "done"
    /\ ~dry_run
    /\ Len(files) = 2
    /\ ~files[1].is_file
    /\ Len(upsert_calls) = 1
    /\ Len(upsert_calls[1].vectors) = 3
    /\ Len(embed_calls) = 3

(***************************************************************************)
(* The chat API (app.py:53-63, 97-212) over retrieval                       *)
(* (rag_backend.py:25-77).  A provider response is what the code reads of   *)
(* it: a text as a sequence of characters and a usage object.               *)
(***************************************************************************)
APOLOGY == "I'm sorry, I can't answer that. Please contact HR"
MESSAGE_LIMIT == 200
TOP_K == 3
WHITESPACE == {" ", "\n", "\t"}
METRICS_READER == "metrics"

\* app.py:78  self.message[:200] if len(self.message) > 200 else self.message
validated_message(m) ==
    IF Len(m) > MESSAGE_LIMIT THEN SubSeq(m, 1, MESSAGE_LIMIT) ELSE m

RECURSIVE LStrip(_, _)
\* str.lstrip(chars) on a sequence of characters
LStrip(pieces, chars) ==
    IF pieces # <<>> /\ Head(pieces) \in chars THEN LStrip(Tail(pieces), chars) ELSE pieces

\* app.py:141, 180  .strip()
Strip_kept(chars) == Concat(chars)
Strip(chars) == Concat(RStrip(LStrip(chars, WHITESPACE), WHITESPACE))

\* app.py:210  answer + "\n\n" + sources_md
answer_with_sources_bare(ans, sources) == ans
answer_with_sources(ans, sources) == ans \o "\n\n" \o sources

\* a token count as it arrives in a usage object: None, an int, or a value
\* int() rejects, such as the string "n/a"
NoneVal == [kind |-> "None", val |-> 0]
IntVal(k) == [kind |-> "int", val |-> k]
StrVal == [kind |-> "str", val |-> 0]

\* x or 0
OrZero(x) == IF x.kind = "None" \/ (x.kind = "int" /\ x.val = 0) THEN IntVal(0) ELSE x

\* int(x) raises ValueError for a string that is not a number
int_raises(x) == x.kind = "str"

\* a usage object, and the absent one (usage is None)
Usage(p, c, t) == [present |-> TRUE, prompt |-> p, completion |-> c, total |-> t]
NO_USAGE == [present |-> FALSE, prompt |-> NoneVal, completion |-> NoneVal, total |-> NoneVal]

\* app.py:144-147  prompt_t, completion_t, total_t of a Gemini result
GeminiTokens(u) ==
    IF u.present THEN <<u.prompt, u.completion, u.total>>
    ELSE <<IntVal(0), IntVal(0), IntVal(0 + 0)>>

\* app.py:183-186  prompt_t, completion_t, total_t of an OpenAI response
OpenAITokens(u) ==
    IF u.present THEN <<u.prompt, u.completion, u.total>>
    ELSE <<NoneVal, NoneVal, NoneVal>>

\* app.py:149-152, 188-191  the body of the with block, statement by
\* statement, up to the first int() that raises
Account(M, counter, toks) ==
    LET called == IF counter = "gemini_calls" THEN [M EXCEPT !.gemini_calls = @ + 1]
                  ELSE [M EXCEPT !.openai_calls = @ + 1]
        pt == OrZero(toks[1])
        ct == OrZero(toks[2])
        tt == OrZero(toks[3])
    IN IF int_raises(pt) THEN called
       ELSE IF int_raises(ct) THEN [called EXCEPT !.prompt_tokens = @ + pt.val]
       ELSE IF int_raises(tt)
       THEN [called EXCEPT !.prompt_tokens = @ + pt.val, !.completion_tokens = @ + ct.val]
       ELSE [called EXCEPT !.prompt_tokens = @ + pt.val, !.completion_tokens = @ + ct.val,
                           !.total_tokens = @ + tt.val]

\* one of the int() calls of the with block raises
AccountRaises(toks) == \E j \in 1..3 : int_raises(OrZero(toks[j]))

\* dict.get(key, default)
Get(rec, key, default) == IF key \in DOMAIN rec THEN rec[key] ELSE default

\* rag_backend.py:67-76  one match of the query result as a document
MatchDoc(m) ==
    [score |-> Get(m, "score", None),
     text  |-> Get(Get(m, "metadata", <<>>), "chunk_text", ""),
     file  |-> Get(Get(m, "metadata", <<>>), "source_file", ""),
     url   |-> Get(Get(m, "metadata", <<>>), "url", None)]

\* rag_backend.py:66-77  docs of the matches, in order
MatchDocs(matches) == [j \in 1..Len(matches) |-> MatchDoc(matches[j])]

\* the vector the secondary embedding provider returns: entry k is float(100 + k)
SecondaryVec(slen) == [sj \in 1..slen |-> [num |-> 100 + sj - 1, den |-> 1]]

\* an outbound call of a request
\* result is the text of a chat answer
Call(op, arg, outcome, result) ==
    [op |-> op, arg |-> arg, outcome |-> outcome, result |-> result]

Requests == DOMAIN pc

\* the input sets: a single request draws from the full sets, concurrent
\* requests from one representative each where the counters cannot tell
Lean == Cardinality(Requests) > 1

LongMessageLen == 201

EmbedLens == IF Lean THEN {TARGET_DIM} ELSE {TARGET_DIM, 2 * TARGET_DIM, TARGET_DIM + 1}

MatchKinds ==
    { [score |-> 2, metadata |-> [source_file |-> "A.pdf", chunk_text |-> "t1",
                                  url |-> "http://docs/A.pdf"]],
      [score |-> 1, metadata |-> [source_file |-> "B.txt", chunk_text |-> "t2"]],
      [score |-> 1] }
MaxMatches == 2
MatchLists ==
    IF Lean THEN {<<>>}
    ELSE UNION {[1..k -> MatchKinds] : k \in 0..Min(MaxMatches, TOP_K)}

ChatTexts ==
    IF Lean THEN {<<"O", "K">>}
    ELSE {<<" ", "T", "a", "k", "e", " ", "5", "\n">>, <<"O", "K">>}

Usages ==
    IF Lean THEN {Usage(IntVal(3), IntVal(4), IntVal(7)), Usage(IntVal(3), StrVal, IntVal(7))}
    ELSE {NO_USAGE, Usage(IntVal(3), IntVal(4), IntVal(7)),
          Usage(NoneVal, NoneVal, NoneVal), Usage(IntVal(3), StrVal, IntVal(7)),
          Usage(IntVal(3), IntVal(4), StrVal)}

Goto(r, label) == pc' = [pc EXCEPT ![r] = label]
Called(r, call) == calls' = [calls EXCEPT ![r] = Append(@, call)]

\* an exception leaves chat(): the framework answers HTTP 500
Raise(r, error) ==
    /\ pc' = [pc EXCEPT ![r] = "raised"]
    /\ exc' = [exc EXCEPT ![r] = error]

\* the with _metrics_lock: statements of chat() and the label of each body
LockSites ==
    [count_lock |-> "count", gemini_usage_lock |-> "gemini_usage",
     openai_usage_lock |-> "openai_usage", openai_except_lock |-> "openai_except",
     openai_error_lock |-> "openai_error", no_openai_lock |-> "no_openai"]

\* app.py:107  message = req.validated_message
ChatEnter(r) ==
    /\ pc[r] = "start"
    /\ message' = [message EXCEPT ![r] = validated_message(req[r])]
    /\ Goto(r, "count_lock")
    /\ UNCHANGED <<exceptChat, METRICS, metrics_lock, metrics_reads, req, query_vec, docs,
                   sources_md, usage, answer, reply, exc, calls>>

\* app.py:108, 148, 187, 194, 199, 205  with _metrics_lock: the lock is taken
Acquire(r) ==
    /\ pc[r] \in DOMAIN LockSites
    /\ metrics_lock = LOCK_FREE
    /\ metrics_lock' = r
    /\ Goto(r, LockSites[pc[r]])
    /\ UNCHANGED <<exceptChat, METRICS, metrics_reads, req, message, query_vec, docs,
                   sources_md, usage, answer, reply, exc, calls>>

\* app.py:109  METRICS["requests"] += 1, and the lock is released
ChatCount(r) ==
    /\ pc[r] = "count"
    /\ METRICS' = [METRICS EXCEPT !.requests = @ + 1]
    /\ metrics_lock' = LOCK_FREE
    /\ Goto(r, "embed_query")
    /\ UNCHANGED <<exceptChat, metrics_reads, req, message, query_vec, docs,
                   sources_md, usage, answer, reply, exc, calls>>

\* rag_backend.py:27-32, 45-52  the primary provider answers; vec is normalised
EmbedPrimaryOk(r) ==
    /\ pc[r] = "embed_query"
    /\ \E n \in EmbedLens :
          query_vec' = [query_vec EXCEPT ![r] =
                            embed_query_normalize(ProviderVec(n), TARGET_DIM)]
    /\ Called(r, Call("embed_primary", message[r], "ok", ""))
    /\ Goto(r, "index_query")
    /\ UNCHANGED <<exceptChat, METRICS, metrics_lock, metrics_reads, req, message, docs,
                   sources_md, usage, answer, reply, exc>>

\* rag_backend.py:28-42  the primary call raises, or its embeddings list is
\* empty: fall back if OpenAI is configured, else re-raise
EmbedPrimaryFails(r) ==
    /\ pc[r] = "embed_query"
    /\ \E error \in {"ClientError", "ServerError", "IndexError"} :
          /\ Called(r, Call("embed_primary", message[r], error, ""))
          /\ IF openai_client
             THEN Goto(r, "embed_fallback") /\ exc' = exc
             ELSE Raise(r, error)
    /\ UNCHANGED <<exceptChat, METRICS, metrics_lock, metrics_reads, req, message,
                   query_vec, docs, sources_md, usage, answer, reply>>

\* rag_backend.py:36-40, 45-52  the secondary provider answers
EmbedSecondaryOk(r) ==
    /\ pc[r] = "embed_fallback"
    /\ \E n \in EmbedLens :
          query_vec' = [query_vec EXCEPT ![r] =
                            embed_query_normalize(SecondaryVec(n), TARGET_DIM)]
    /\ Called(r, Call("embed_secondary", message[r], "ok", ""))
    /\ Goto(r, "index_query")
    /\ UNCHANGED <<exceptChat, METRICS, metrics_lock, metrics_reads, req, message, docs,
                   sources_md, usage, answer, reply, exc>>

\* rag_backend.py:36-40  the secondary call raises inside the except block
EmbedSecondaryFails(r) ==
    /\ pc[r] = "embed_fallback"
    /\ Called(r, Call("embed_secondary", message[r], "OpenAIError", ""))
    /\ Raise(r, "OpenAIError")
    /\ UNCHANGED <<exceptChat, METRICS, metrics_lock, metrics_reads, req, message,
                   query_vec, docs, sources_md, usage, answer, reply>>

\* rag_backend.py:58-77, app.py:112-113  index.query answers; docs, sources_md
IndexQueryOk(r) ==
    /\ pc[r] = "index_query"
    /\ \E matches \in MatchLists :
          /\ docs' = [docs EXCEPT ![r] = MatchDocs(matches)]
          /\ sources_md' = [sources_md EXCEPT ![r] =
                                build_sources_markdown(MatchDocs(matches))]
    /\ Called(r, Call("index_query", query_vec[r], "ok", ""))
    /\ Goto(r, "generate")
    /\ UNCHANGED <<exceptChat, METRICS, metrics_lock, metrics_reads, req, message,
                   query_vec, usage, answer, reply, exc>>

\* rag_backend.py:58-64  index.query raises
IndexQueryFails(r) ==
    /\ pc[r] = "index_query"
    /\ Called(r, Call("index_query", query_vec[r], "PineconeError", ""))
    /\ Raise(r, "PineconeError")
    /\ UNCHANGED <<exceptChat, METRICS, metrics_lock, metrics_reads, req, message,
                   query_vec, docs, sources_md, usage, answer, reply>>

\* app.py:137-147  generate_content answers with a text: answer = text.strip()
GeneratePrimaryOk(r) ==
    /\ pc[r] = "generate"
    /\ \E chars \in ChatTexts, u \in Usages :
          /\ answer' = [answer EXCEPT ![r] = Strip(chars)]
          /\ usage' = [usage EXCEPT ![r] = GeminiTokens(u)]
          /\ Called(r, Call("chat_primary", "", "ok", chars))
    /\ Goto(r, "gemini_usage_lock")
    /\ UNCHANGED <<exceptChat, METRICS, metrics_lock, metrics_reads, req, message,
                   query_vec, docs, sources_md, reply, exc>>

\* app.py:141  result.text is None (no text part): AttributeError, which the
\* except genai_errors.ClientError clause does not catch
GeneratePrimaryNoText(r) ==
    /\ pc[r] = "generate"
    /\ Called(r, Call("chat_primary", "", "no_text", ""))
    /\ Raise(r, "AttributeError")
    /\ UNCHANGED <<exceptChat, METRICS, metrics_lock, metrics_reads, req, message,
                   query_vec, docs, sources_md, usage, answer, reply>>

\* app.py:157-161, 202-204  generate_content raises genai_errors.ClientError
GeneratePrimaryClientError(r) ==
    /\ pc[r] = "generate"
    /\ Called(r, Call("chat_primary", "", "ClientError", ""))
    /\ Goto(r, IF openai_client THEN "fallback" ELSE "no_openai_lock")
    /\ UNCHANGED <<exceptChat, METRICS, metrics_lock, metrics_reads, req, message,
                   query_vec, docs, sources_md, usage, answer, reply, exc>>

\* app.py:137-157  generate_content raises anything else (genai_errors.ServerError,
\* a connection error): no except clause matches
GeneratePrimaryOtherError(r) ==
    /\ pc[r] = "generate"
    /\ \E error \in {"ServerError", "ConnectError"} :
          /\ Called(r, Call("chat_primary", "", error, ""))
          /\ Raise(r, error)
    /\ UNCHANGED <<exceptChat, METRICS, metrics_lock, metrics_reads, req, message,
                   query_vec, docs, sources_md, usage, answer, reply>>

\* app.py:149-156  the Gemini usage block; an exception in it is passed over
GeminiUsage(r) ==
    /\ pc[r] = "gemini_usage"
    /\ METRICS' = Account(METRICS, "gemini_calls", usage[r])
    /\ metrics_lock' = LOCK_FREE
    /\ Goto(r, "reply")
    /\ UNCHANGED <<exceptChat, metrics_reads, req, message, query_vec, docs,
                   sources_md, usage, answer, reply, exc, calls>>

\* app.py:175-186  the OpenAI call answers with a content: answer = content.strip()
GenerateSecondaryOk(r) ==
    /\ pc[r] = "fallback"
    /\ \E chars \in ChatTexts, u \in Usages :
          /\ answer' = [answer EXCEPT ![r] = Strip(chars)]
          /\ usage' = [usage EXCEPT ![r] = OpenAITokens(u)]
          /\ Called(r, Call("chat_secondary", "", "ok", chars))
    /\ Goto(r, "openai_usage_lock")
    /\ UNCHANGED <<exceptChat, METRICS, metrics_lock, metrics_reads, req, message,
                   query_vec, docs, sources_md, reply, exc>>

\* app.py:175-180, 196-198  the OpenAI call raises, or its message content is
\* None and .strip() raises: except Exception as oe
GenerateSecondaryFails(r) ==
    /\ pc[r] = "fallback"
    /\ \E error \in {"OpenAIError", "no_content"} :
          Called(r, Call("chat_secondary", "", error, ""))
    /\ Goto(r, "openai_error_lock")
    /\ UNCHANGED <<exceptChat, METRICS, metrics_lock, metrics_reads, req, message,
                   query_vec, docs, sources_md, usage, answer, reply, exc>>

\* app.py:188-193  the OpenAI usage block; an int() that raises leaves the with
\* block (the lock is released) for the except Exception clause
OpenAIUsage(r) ==
    /\ pc[r] = "openai_usage"
    /\ METRICS' = Account(METRICS, "openai_calls", usage[r])
    /\ metrics_lock' = LOCK_FREE
    /\ Goto(r, IF AccountRaises(usage[r]) THEN "openai_except_lock" ELSE "reply")
    /\ UNCHANGED <<exceptChat, metrics_reads, req, message, query_vec, docs,
                   sources_md, usage, answer, reply, exc, calls>>

\* app.py:193-195  except Exception: METRICS["openai_calls"] += 1
OpenAIUsageExcept(r) ==
    /\ pc[r] = "openai_except"
    /\ METRICS' = [METRICS EXCEPT !.openai_calls = @ + 1]
    /\ metrics_lock' = LOCK_FREE
    /\ Goto(r, "reply")
    /\ UNCHANGED <<exceptChat, metrics_reads, req, message, query_vec, docs,
                   sources_md, usage, answer, reply, exc, calls>>

\* app.py:199-201  the OpenAI fallback failed: errors += 1, the apology
OpenAIError(r) ==
    /\ pc[r] = "openai_error"
    /\ METRICS' = [METRICS EXCEPT !.errors = @ + 1]
    /\ metrics_lock' = LOCK_FREE
    /\ answer' = [answer EXCEPT ![r] = APOLOGY]
    /\ Goto(r, "reply")
    /\ UNCHANGED <<exceptChat, metrics_reads, req, message, query_vec, docs,
                   sources_md, usage, reply, exc, calls>>

\* app.py:205-207  no OpenAI client: errors += 1, the apology
NoOpenAIError(r) ==
    /\ pc[r] = "no_openai"
    /\ METRICS' = [METRICS EXCEPT !.errors = @ + 1]
    /\ metrics_lock' = LOCK_FREE
    /\ answer' = [answer EXCEPT ![r] = APOLOGY]
    /\ Goto(r, "reply")
    /\ UNCHANGED <<exceptChat, metrics_reads, req, message, query_vec, docs,
                   sources_md, usage, reply, exc, calls>>

\* app.py:210-212  return ChatResponse(reply=answer + "\n\n" + sources_md)
ChatReply(r) ==
    /\ pc[r] = "reply"
    /\ reply' = [reply EXCEPT ![r] = answer_with_sources(answer[r], sources_md[r])]
    /\ Goto(r, "replied")
    /\ UNCHANGED <<exceptChat, METRICS, metrics_lock, metrics_reads, req, message,
                   query_vec, docs, sources_md, usage, answer, exc, calls>>

MaxReads == 1

\* app.py:100  GET /metrics takes the lock
MetricsAcquire ==
    /\ Requests # {}
    /\ Len(metrics_reads) < MaxReads
    /\ metrics_lock = LOCK_FREE
    /\ metrics_lock' = METRICS_READER
    /\ UNCHANGED <<exceptChat, METRICS, metrics_reads, pc, req, message, query_vec, docs,
                   sources_md, usage, answer, reply, exc, calls>>

\* app.py:101  return METRICS.copy(), and the lock is released
MetricsCopy ==
    /\ metrics_lock = METRICS_READER
    /\ metrics_reads' = Append(metrics_reads, METRICS)
    /\ metrics_lock' = LOCK_FREE
    /\ UNCHANGED <<exceptChat, METRICS, pc, req, message, query_vec, docs,
                   sources_md, usage, answer, reply, exc, calls>>

NO_VECTOR == <<>>
NO_DOCS == <<>>

\* the requests rs have arrived and none has run
ChatInit(rs) ==
    /\ DimIdle
    /\ ChunkIdle
    /\ SrcIdle
    /\ IngIdle
    /\ TARGET_DIM = IngestDim
    /\ openai_client \in BOOLEAN
    /\ METRICS = ZeroMetrics
    /\ metrics_lock = LOCK_FREE
    /\ metrics_reads = <<>>
    /\ pc = [r \in rs |-> "start"]
    /\ req \in [rs -> IF Cardinality(rs) > 1 THEN {<<"h", "i">>}
                      ELSE {<<"h", "i">>, [j \in 1..LongMessageLen |-> "x"]}]
    /\ message = [r \in rs |-> None]
    /\ query_vec = [r \in rs |-> NO_VECTOR]
    /\ docs = [r \in rs |-> NO_DOCS]
    /\ sources_md = [r \in rs |-> None]
    /\ usage = [r \in rs |-> <<NoneVal, NoneVal, NoneVal>>]
    /\ answer = [r \in rs |-> None]
    /\ reply = [r \in rs |-> None]
    /\ exc = [r \in rs |-> None]
    /\ calls = [r \in rs |-> <<>>]

ChatNext ==
    \/ \E r \in Requests : ChatEnter(r)
    \/ \E r \in Requests : Acquire(r)
    \/ \E r \in Requests : ChatCount(r)
    \/ \E r \in Requests : EmbedPrimaryOk(r)
    \/ \E r \in Requests : EmbedPrimaryFails(r)
    \/ \E r \in Requests : EmbedSecondaryOk(r)
    \/ \E r \in Requests : EmbedSecondaryFails(r)
    \/ \E r \in Requests : IndexQueryOk(r)
    \/ \E r \in Requests : IndexQueryFails(r)
    \/ \E r \in Requests : GeneratePrimaryOk(r)
    \/ \E r \in Requests : GeneratePrimaryNoText(r)
    \/ \E r \in Requests : GeneratePrimaryClientError(r)
    \/ \E r \in Requests : GeneratePrimaryOtherError(r)
    \/ \E r \in Requests : GeminiUsage(r)
    \/ \E r \in Requests : GenerateSecondaryOk(r)
    \/ \E r \in Requests : GenerateSecondaryFails(r)
    \/ \E r \in Requests : OpenAIUsage(r)
    \/ \E r \in Requests : OpenAIUsageExcept(r)
    \/ \E r \in Requests : OpenAIError(r)
    \/ \E r \in Requests : NoOpenAIError(r)
    \/ \E r \in Requests : ChatReply(r)
    \/ MetricsAcquire
    \/ MetricsCopy

\* one POST /chat request, and GET /metrics readers
SpecChat == ChatInit({"r1"}) /\ [][ChatNext]_vars

\* two POST /chat requests in flight at once, and GET /metrics readers
SpecConc == ChatInit({"r1", "r2"}) /\ [][ChatNext]_vars

(***************************************************************************)
(* Claims about the chat operation                                          *)
(***************************************************************************)
IsChatCall(call) == call.op \in {"chat_primary", "chat_secondary"}
IsEmbedCall(call) == call.op \in {"embed_primary", "embed_secondary"}
ChatCalls(r) == SelectSeq(calls[r], IsChatCall)
EmbedCalls(r) == SelectSeq(calls[r], IsEmbedCall)

\* the request is still before its embed_query call
BeforeEmbed(r) == pc[r] \in {"start", "count_lock", "count", "embed_query"}

\* get_hr_policy has returned to chat()
Retrieved(r) ==
    \E j \in 1..Len(calls[r]) : calls[r][j].op = "index_query" /\ calls[r][j].outcome = "ok"

\* the request has ended, by a reply or by an exception
Ended(r) == pc[r] \in {"replied", "raised"}

\* C1 as claimed: once retrieval has succeeded, a failure of the primary chat
\* call of whatever kind never leaves the handler as an exception; the
\* request ends with a reply that is the secondary answer or the apology,
\* followed by the sources footer.
C1_PrimaryFailureNeverEscapes ==
    \A r \in Requests :
        (/\ Retrieved(r)
         /\ Len(ChatCalls(r)) >= 1
         /\ ChatCalls(r)[1].outcome # "ok")
        => /\ pc[r] # "raised"
           /\ pc[r] = "replied" =>
                 /\ reply[r] = answer[r] \o "\n\n" \o sources_md[r]
                 /\ \/ answer[r] = "I'm sorry, I can't answer that. Please contact HR"
                    \/ /\ Len(ChatCalls(r)) = 2
                       /\ ChatCalls(r)[2].outcome = "ok"

\* query embedding failed: the primary failed and there was no secondary or
\* the secondary failed too
EmbeddingFailed(r) ==
    /\ Len(EmbedCalls(r)) >= 1
    /\ EmbedCalls(r)[1].outcome # "ok"
    /\ \/ ~openai_client
       \/ Len(EmbedCalls(r)) = 2 /\ EmbedCalls(r)[2].outcome # "ok"

\* C2 as claimed: when query embedding fails the embedding error is not
\* propagated out of chat(); the request ends with a reply that contains the
\* apology.
C2_EmbeddingFailureGetsApology ==
    \A r \in Requests :
        EmbeddingFailed(r) =>
            /\ pc[r] # "raised"
            /\ Ended(r) => answer[r] = "I'm sorry, I can't answer that. Please contact HR"

\* The case of C3: a replied request whose retrieval returned, whose primary
\* chat call raised ClientError, with no OpenAI client configured.
C3_Case(r) ==
    /\ pc[r] = "replied"
    /\ Retrieved(r)
    /\ ChatCalls(r)[1].outcome = "ClientError"
    /\ ~openai_client

\* C3: retrieval succeeded, the primary chat call raised ClientError and no
\* OpenAI client is configured: the reply is the apology, a blank line and
\* the Sources block of the retrieved documents, errors went up by exactly
\* one and no secondary chat call was made.
C3_ApologyWithSources ==
    \A r \in Requests :
        C3_Case(r) =>
            /\ reply[r] = "I'm sorry, I can't answer that. Please contact HR" \o "\n\n"
                              \o build_sources_markdown(docs[r])
            /\ METRICS.errors = 1
            /\ Len(ChatCalls(r)) = 1

C3_Witness ==
    \E r \in Requests :
        /\ C3_Case(r)
        /\ Len(docs[r]) = 2
        /\ docs[r][1].file = "B.txt"
        /\ docs[r][2].file = "A.pdf"

\* a text without its leading and trailing whitespace, by position
C4_Trim(chars) ==
    LET inked == {j \in 1..Len(chars) : chars[j] \notin {" ", "\n", "\t"}} IN
    IF inked = {} THEN ""
    ELSE Concat(SubSeq(chars, CHOOSE a \in inked : \A j \in inked : a <= j,
                              CHOOSE b \in inked : \A j \in inked : b >= j))

\* the chat provider calls of a request so far are in fallback order, and
\* the answer of a request that replied after a secondary call is that
\* call's trimmed text, or the apology with errors raised by one
C4_Order(r) ==
    /\ Len(ChatCalls(r)) <= 2
    /\ Len(ChatCalls(r)) >= 1 => ChatCalls(r)[1].op = "chat_primary"
    /\ Len(ChatCalls(r)) = 2 =>
          /\ ChatCalls(r)[2].op = "chat_secondary"
          /\ ChatCalls(r)[1].outcome = "ClientError"
          /\ openai_client
    /\ pc[r] = "replied" /\ Len(ChatCalls(r)) = 2 =>
          IF ChatCalls(r)[2].outcome = "ok"
          THEN answer[r] = C4_Trim(ChatCalls(r)[2].result)
          ELSE /\ answer[r] = "I'm sorry, I can't answer that. Please contact HR"
               /\ METRICS.errors = 1

\* C4 as claimed: within every chat request the primary chat provider is
\* called exactly once and first, and the secondary at most once, in
\* fallback order.
C4_EveryRequestCallsPrimaryOnce ==
    \A r \in Requests :
        /\ C4_Order(r)
        /\ Ended(r) => Len(ChatCalls(r)) >= 1

\* C4 (amended): within a chat request whose retrieval succeeded the primary
\* chat provider is called exactly once and first; the secondary is called
\* at most once, only after a ClientError of the primary and only when
\* configured; its trimmed text is the answer if it succeeds, and if it fails
\* the answer is the apology and errors goes up by exactly one.  A request
\* whose retrieval raised makes no chat provider call.
C4_FallbackOrderAfterRetrieval ==
    \A r \in Requests :
        /\ C4_Order(r)
        /\ Retrieved(r) /\ pc[r] # "generate" => Len(ChatCalls(r)) >= 1
        /\ ~Retrieved(r) => ChatCalls(r) = <<>>

C4_Witness ==
    \E r \in Requests :
        /\ pc[r] = "replied"
        /\ Len(ChatCalls(r)) = 2
        /\ ChatCalls(r)[2].outcome = "ok"
        /\ ChatCalls(r)[2].result[1] = " "
        /\ answer[r] = "Take 5"

\* C5: embed_query calls the primary embedding provider exactly once; after
\* any primary error it calls the secondary exactly once with the same text
\* if OpenAI is configured and re-raises the primary error if not; it makes
\* no third call; the vector it returns is the normalised vector of the
\* provider that answered.
C5_EmbedFallsBackOnce ==
    \A r \in Requests :
        /\ Len(EmbedCalls(r)) <= 2
        /\ BeforeEmbed(r) => EmbedCalls(r) = <<>>
        /\ ~BeforeEmbed(r) =>
              /\ Len(EmbedCalls(r)) >= 1
              /\ EmbedCalls(r)[1].op = "embed_primary"
              /\ EmbedCalls(r)[1].arg = message[r]
              /\ EmbedCalls(r)[1].outcome # "ok" =>
                    IF openai_client
                    THEN pc[r] = "embed_fallback" \/ Len(EmbedCalls(r)) = 2
                    ELSE pc[r] = "raised" /\ exc[r] = EmbedCalls(r)[1].outcome
              /\ EmbedCalls(r)[1].outcome = "ok" => Len(EmbedCalls(r)) = 1
        /\ Len(EmbedCalls(r)) = 2 =>
              /\ EmbedCalls(r)[2].op = "embed_secondary"
              /\ EmbedCalls(r)[2].arg = EmbedCalls(r)[1].arg
              /\ openai_client
        /\ (Len(EmbedCalls(r)) >= 1 /\ EmbedCalls(r)[Len(EmbedCalls(r))].outcome = "ok") =>
              /\ Len(query_vec[r]) = TARGET_DIM
              /\ (query_vec[r][1].num >= 100 * query_vec[r][1].den)
                     <=> (Len(EmbedCalls(r)) = 2)

C5_Witness ==
    \E r \in Requests :
        /\ Len(EmbedCalls(r)) = 2
        /\ EmbedCalls(r)[1].outcome = "IndexError"
        /\ EmbedCalls(r)[2].outcome = "ok"
        /\ Len(message[r]) = 200
        /\ query_vec[r][1] = [num |-> 201, den |-> 2]

(***************************************************************************)
(* C10: the counters under concurrent requests                              *)
(***************************************************************************)
C10_Counted == {r \in Requests : pc[r] \notin {"start", "count_lock", "count"}}
C10_Outcomes == METRICS.gemini_calls + METRICS.openai_calls + METRICS.errors

\* C10 as claimed: requests equals the number of requests past their count
\* step; gemini_calls + openai_calls + errors never exceeds requests; no
\* snapshot read by GET /metrics shows a counter above its present value;
\* and once every request has replied both equal the number of requests.
C10_EveryRequestCountedOnce ==
    /\ METRICS.requests = Cardinality(C10_Counted)
    /\ C10_Outcomes <= METRICS.requests
    /\ \A j \in 1..Len(metrics_reads) :
          \A name \in DOMAIN METRICS : metrics_reads[j][name] <= METRICS[name]
    /\ (\A r \in Requests : pc[r] = "replied") =>
          /\ METRICS.requests = Cardinality(Requests)
          /\ C10_Outcomes = Cardinality(Requests)

====
